---- MODULE Spec2Model ----
(***************************************************************************)
(* A model of huzhenyuan/dict: the terminal dictionary (main program, kept *)
(* in src/README.md from line 342 on) and its index converter              *)
(* (src/converter.go).                                                     *)
(*                                                                         *)
(* Strings are sequences of Unicode code points (naturals).  Go slices are *)
(* slice headers [arr, len] over backing arrays kept in a heap, so that    *)
(* sharing and in-place writes (append within capacity) are visible.       *)
(***************************************************************************)
EXTENDS Integers, Sequences, FiniteSets, TLC

VARIABLES
    \* ---- recency cache (searchHistory, historyMutex) and its callers ----
    heap,           \* backing arrays of string slices: array id -> contents
    searchHistory,  \* the package-level slice header [arr, len]
    historyMutex,   \* 0 when free, else the caller holding it
    pc,             \* each caller's position
    word,           \* each caller's addToHistory argument
    snap,           \* the slice header a caller got from getSearchHistory
    lastWhole,      \* history: the list as the last finished add left it
    lastKey,        \* history: the argument of the last finished add
    ops,            \* number of calls started
    \* ---- search engine (searchEnglish, searchChinese) and the two stores ----
    words,          \* english_chinese.db, table words: the word column, in rowid order
    chinese_words,  \* chinese_english.db, table chinese_words: the chinese column
    keyword,        \* the trimmed search text
    spc,            \* position of the search goroutine
    target,         \* the store handle the dispatch chose
    results,        \* the result slice
    seen,           \* the seen map, as the set of its keys
    calls,          \* history: the Query calls made, with their outcome
    tierEnd,        \* history: len(results) after each tier
    \* ---- frequency ranks (parseBNC) of two corpus records ----
    freqA, freqB,   \* the records' frequency column, record[8]
    rankA, rankB,   \* their parseBNC results
    bpc,            \* "raw" before parseBNC has run, "ranked" after
    \* ---- gloss extraction (extractChineseWords) ----
    translation,    \* the argument: a record's translation column
    chineseWords,   \* the returned slice
    wordSrc,        \* history: for each returned gloss, the places of its
                    \* characters in the argument
    gpc,            \* "raw" before the call, "extracted" after
    \* ---- reverse index build (CreateChineseDB, after the store is set up) ----
    corpus,         \* the data rows of the CSV file, in file order
    allRecords,     \* the records read into memory
    chineseMap,     \* gloss -> (source word -> translation)
    bncMap,         \* source word -> frequency rank
    rpc,            \* position of the build
    ri,             \* index of the record the aggregation loop is at
    visited,        \* the glosses the insert loop has ranged over
    txRows,         \* rows inserted in the open transaction
    glossRows,      \* chinese_english.db, table chinese_words: committed rows
    rret,           \* the value CreateChineseDB returned, "" while it runs
    \* ---- forward index build (CreateEnglishDB, after the store is set up) ----
    csvRows,        \* the data rows of the CSV file, each a sequence of fields
    records,        \* allRecords: the rows read into memory
    recordChan,     \* the batches in the channel
    closed,         \* the channel has been closed
    sendAt,         \* the producer's loop variable i
    ppc,            \* position of the producer (CreateEnglishDB itself)
    wpc,            \* position of each worker
    batch,          \* the batch each worker holds
    openTx,         \* for each worker: it has a transaction open
    txWords,        \* for each worker: the rows inserted in its transaction
    dbMutex,        \* 0 when free, else the worker holding it
    batchCount,     \* each worker's batchCount
    totalCount,     \* the shared counter
    wordRows,       \* english_chinese.db, table words: committed rows
    fret,           \* the value CreateEnglishDB returned, "" while it runs
    failedAt,       \* history: for each worker, the places in its batch whose
                    \* Exec failed
    \* ---- RunConverter and the set-up of the two stores ----
    nrec,           \* the number of records of the corpus
    store,          \* the two store files: existence, table, index, rows
    cfn,            \* the build step that runs: "english" or "chinese"
    cpc,            \* position inside it
    started,        \* the build steps called so far
    inserted,       \* the build steps that have inserted a record
    cret,           \* the value RunConverter returned: <<"nil">> or the failed
                    \* build step and operation; <<>> while it runs
    \* ---- the user interface (main): input field, word list, callbacks ----
    searchInput,    \* the trimmed text of the input field
    searchResults,  \* the shared result slice
    wordList,       \* the items of the list, each with what its callback captured
    current,        \* the list's current item, 0 when it has none
    focus,          \* the widget that has the focus
    tasks,          \* the goroutines under way, each with its position
    uiQueue,        \* the updates queued with QueueUpdateDraw
    timerArmed,     \* inputTimer is running
    typed,          \* number of changes of the input so far
    crashed,        \* a callback has panicked
    lastEvent,      \* history: the kind of the last step
    lastText        \* history: the text of the item last clicked

histVars == <<heap, searchHistory, historyMutex, pc, word, snap, lastWhole, lastKey, ops>>

searchVars == <<words, chinese_words, keyword, spc, target, results, seen, calls, tierEnd>>

bncVars == <<freqA, freqB, rankA, rankB, bpc>>

glossVars == <<translation, chineseWords, wordSrc, gpc>>

\* the state of the index build (converter.go)
revVars == <<corpus, allRecords, chineseMap, bncMap, rpc, ri, visited, txRows, glossRows, rret>>

fwdVars == <<csvRows, records, recordChan, closed, sendAt, ppc, wpc, batch, openTx, txWords,
             dbMutex, batchCount, totalCount, wordRows, fret, failedAt>>

convVars == <<nrec, store, cfn, cpc, started, inserted, cret>>

buildVars == <<glossVars, revVars, fwdVars, convVars>>

uiVars == <<searchInput, searchResults, wordList, current, focus, tasks, uiQueue, timerArmed,
            typed, crashed, lastEvent, lastText>>

vars == <<histVars, searchVars, bncVars, buildVars, uiVars>>

(***************************************************************************)
(* Generic helpers                                                         *)
(***************************************************************************)
Range(s) == {s[i] : i \in 1..Len(s)}

NoDup(s) == \A i, j \in 1..Len(s) : i # j => s[i] # s[j]

Min(a, b) == IF a < b THEN a ELSE b

Reverse(s) == [i \in 1..Len(s) |-> s[Len(s) + 1 - i]]

\* s is an initial part of t
IsInitialPart(s, t) == Len(s) <= Len(t) /\ SubSeq(t, 1, Len(s)) = s

\* The elements of s that occur at no earlier place and are not in the set
\* skip, in s's order.
FirstOccurrences(s, skip) ==
    LET at == [i \in 1..Len(s) |-> <<i, s[i]>>]
        kept == SelectSeq(at, LAMBDA e : e[2] \notin skip
                                          /\ \A j \in 1..(e[1] - 1) : s[j] # e[2])
    IN [i \in 1..Len(kept) |-> kept[i][2]]

\* n copies of x
Copies(x, n) == [i \in 1..n |-> x]

\* <<n, n-1, ..., 1>>: the list after adding the words 1, 2, ..., n in turn.
Descending(n) == [i \in 1..n |-> n + 1 - i]

(***************************************************************************)
(* Recency cache                                                           *)
(***************************************************************************)
maxHistorySize == 20

\* Bounds of the recency-cache model.
NumCallers == 2
MaxOps == 2

Callers == 1..NumCallers
\* Words are abstract strings; two more words than the cache can hold.
Words == 1..(maxHistorySize + 2)
\* The words the callers pass: in the initial lists these are the tail, the one
\* before it, a middle one, the head of a full list, and two words never added.
AddWords == {1, 2, maxHistorySize \div 2, maxHistorySize,
             maxHistorySize + 1, maxHistorySize + 2}
InitLens == 0..maxHistorySize

ArrIds == 1..(NumCallers + 2)
NilSlice == [arr |-> 0, len |-> 0]

\* The elements a slice header denotes.
View(h, s) == IF s.arr = 0 THEN <<>> ELSE SubSeq(h[s.arr], 1, s.len)

Hist == View(heap, searchHistory)

\* Arrays reachable from the package variable or from a caller's snapshot.
Referenced(sh, sn) == ({sh.arr} \cup {sn[p].arr : p \in Callers}) \ {0}

\* The runtime allocator: a fresh array; unreachable arrays are collected.
NewArr(sh, sn) == CHOOSE a \in ArrIds : a \notin Referenced(sh, sn) /\
                      \A b \in ArrIds : b \notin Referenced(sh, sn) => a <= b

Collect(h, sh, sn) == [a \in ArrIds |-> IF a \in Referenced(sh, sn) THEN h[a] ELSE <<>>]

\* A scan that stops one element early.
FirstIndexSkipLast(s, w) ==
    IF \E i \in 1..(Len(s) - 1) : s[i] = w
    THEN CHOOSE i \in 1..(Len(s) - 1) : s[i] = w /\ \A j \in 1..(i - 1) : s[j] # w
    ELSE 0

\* for i, w := range searchHistory { if w == word {...; break} }: first match, 0 if none
FirstIndex(s, w) == IF \E i \in 1..Len(s) : s[i] = w
                    THEN CHOOSE i \in 1..Len(s) : s[i] = w /\ \A j \in 1..(i - 1) : s[j] # w
                    ELSE 0

\* append(a[:i], a[i:]...): nothing moves.
SpliceArrayKeep(a, i, n) == a

\* append(a[:i], a[i+1:]...) on the backing array: the elements after i move
\* one place down, in place; the old last place keeps its value.
SpliceArray(a, i, n) == [j \in 1..Len(a) |-> IF j >= i /\ j < n THEN a[j + 1] ELSE a[j]]

\* A limit that lets one element too many through.
LimitOffByOne(sh) == IF sh.len > maxHistorySize + 1
                     THEN [sh EXCEPT !.len = maxHistorySize + 1]
                     ELSE sh

\* if len(searchHistory) > maxHistorySize { searchHistory = searchHistory[:maxHistorySize] }
Limit(sh) == IF sh.len > maxHistorySize
             THEN [sh EXCEPT !.len = maxHistorySize]
             ELSE sh

\* getSearchHistory returning the package slice itself.
SnapshotLive(h, sh, sn) == [hdr |-> sh, heap |-> h]

\* history := make([]string, len(searchHistory)); copy(history, searchHistory)
SnapshotOf(h, sh, sn) ==
    LET a == NewArr(sh, sn)
    IN [hdr |-> [arr |-> a, len |-> sh.len], heap |-> [h EXCEPT ![a] = View(h, sh)]]

\* addToHistory: historyMutex.Lock()
AddLock(p, w) ==
    /\ pc[p] = "idle"
    /\ historyMutex = 0
    /\ ops < MaxOps
    /\ historyMutex' = p
    /\ pc' = [pc EXCEPT ![p] = "add_scan"]
    /\ word' = [word EXCEPT ![p] = w]
    /\ ops' = ops + 1
    /\ UNCHANGED <<heap, searchHistory, snap, lastWhole, lastKey, searchVars, bncVars, buildVars, uiVars>>

\* addToHistory: the scan that removes the word when it is present
AddRemove(p) ==
    /\ pc[p] = "add_scan"
    /\ LET i == FirstIndex(Hist, word[p]) IN
        IF i = 0
        THEN UNCHANGED <<heap, searchHistory>>
        ELSE /\ heap' = [heap EXCEPT ![searchHistory.arr] =
                             SpliceArray(@, i, searchHistory.len)]
             /\ searchHistory' = [searchHistory EXCEPT !.len = @ - 1]
    /\ pc' = [pc EXCEPT ![p] = "add_prepend"]
    /\ UNCHANGED <<historyMutex, word, snap, lastWhole, lastKey, ops, searchVars, bncVars, buildVars, uiVars>>

\* addToHistory: searchHistory = append([]string{word}, searchHistory...)
AddPrepend(p) ==
    /\ pc[p] = "add_prepend"
    /\ LET a == NewArr(searchHistory, snap)
           sh == [arr |-> a, len |-> searchHistory.len + 1]
       IN /\ searchHistory' = sh
          /\ heap' = Collect([heap EXCEPT ![a] = <<word[p]>> \o Hist], sh, snap)
    /\ pc' = [pc EXCEPT ![p] = "add_limit"]
    /\ UNCHANGED <<historyMutex, word, snap, lastWhole, lastKey, ops, searchVars, bncVars, buildVars, uiVars>>

\* addToHistory: the size limit, then the deferred Unlock on return
AddLimit(p) ==
    /\ pc[p] = "add_limit"
    /\ LET sh == Limit(searchHistory)
       IN /\ searchHistory' = sh
          /\ lastWhole' = View(heap, sh)
    /\ lastKey' = word[p]
    /\ historyMutex' = 0
    /\ pc' = [pc EXCEPT ![p] = "idle"]
    /\ UNCHANGED <<heap, word, snap, ops, searchVars, bncVars, buildVars, uiVars>>

\* getSearchHistory: historyMutex.Lock()
GetLock(p) ==
    /\ pc[p] = "idle"
    /\ historyMutex = 0
    /\ ops < MaxOps
    /\ historyMutex' = p
    /\ pc' = [pc EXCEPT ![p] = "get_copy"]
    /\ ops' = ops + 1
    /\ UNCHANGED <<heap, searchHistory, word, snap, lastWhole, lastKey, searchVars, bncVars, buildVars, uiVars>>

\* getSearchHistory: make + copy, return the copy (deferred Unlock)
GetCopy(p) ==
    /\ pc[p] = "get_copy"
    /\ LET r == SnapshotOf(heap, searchHistory, snap)
       IN /\ snap' = [snap EXCEPT ![p] = r.hdr]
          /\ heap' = r.heap
    /\ historyMutex' = 0
    /\ pc' = [pc EXCEPT ![p] = "have"]
    /\ UNCHANGED <<searchHistory, word, lastWhole, lastKey, ops, searchVars, bncVars, buildVars, uiVars>>

\* the caller is done with its snapshot (showInitialWords' goroutine ends)
Drop(p) ==
    /\ pc[p] = "have"
    /\ snap' = [snap EXCEPT ![p] = NilSlice]
    /\ heap' = Collect(heap, searchHistory, snap')
    /\ pc' = [pc EXCEPT ![p] = "idle"]
    /\ UNCHANGED <<searchHistory, historyMutex, word, lastWhole, lastKey, ops, searchVars, bncVars, buildVars, uiVars>>

\* The recency cache at program start, for the runs that leave it alone.
IdleHistory ==
    /\ searchHistory = NilSlice
    /\ heap = [a \in ArrIds |-> <<>>]
    /\ lastWhole = <<>>
    /\ lastKey = 0
    /\ historyMutex = 0
    /\ pc = [p \in Callers |-> "idle"]
    /\ word = [p \in Callers |-> 0]
    /\ snap = [p \in Callers |-> NilSlice]
    /\ ops = 0

InitHistory ==
    /\ \E n \in InitLens :
        /\ searchHistory = (IF n = 0 THEN NilSlice ELSE [arr |-> 1, len |-> n])
        /\ heap = [a \in ArrIds |-> IF a = 1 THEN Descending(n) ELSE <<>>]
        /\ lastWhole = Descending(n)
        /\ lastKey = n
    /\ historyMutex = 0
    /\ pc = [p \in Callers |-> "idle"]
    /\ word = [p \in Callers |-> 0]
    /\ snap = [p \in Callers |-> NilSlice]
    /\ ops = 0

NextHistory ==
    \E p \in Callers :
        \/ \E w \in AddWords : AddLock(p, w)
        \/ AddRemove(p)
        \/ AddPrepend(p)
        \/ AddLimit(p)
        \/ GetLock(p)
        \/ GetCopy(p)
        \/ Drop(p)

(***************************************************************************)
(* Search engine                                                           *)
(*                                                                         *)
(* A store table is the sequence of its key column in rowid order.  SQL's  *)
(* = and != compare code points (BINARY collation); LIKE is SQLite's       *)
(* default LIKE: % matches any run of characters, _ any one character, and *)
(* ASCII letters match without regard to case.  A SELECT without ORDER BY  *)
(* may deliver its rows in either scan direction.                          *)
(***************************************************************************)
limit == 100

\* Bounds of the search model: rows per key (homographs), substring-only keys.
MaxDup == 2
MaxSub == 2

\* unicode.Is(unicode.Han, r): the ideograph blocks of the Han script
IsHan(r) ==
    \/ r \in {12293, 12295}
    \/ r \in 13312..19903
    \/ r \in 19968..40959
    \/ r \in 63744..64217

\* A test of the first character only.
isChineseFirstOnly(text) == text # <<>> /\ IsHan(text[1])

\* isChinese: true as soon as one rune is Han
isChinese(text) == \E i \in 1..Len(text) : IsHan(text[i])

\* SQLite's case folding for LIKE: ASCII upper case to lower case
Fold(c) == IF c \in 65..90 THEN c + 32 ELSE c

\* SQLite's LIKE without ESCAPE: 37 is %, 95 is _
RECURSIVE LikeFrom(_, _, _, _)
LikeFrom(pat, i, str, j) ==
    IF i > Len(pat) THEN j > Len(str)
    ELSE IF pat[i] = 37 THEN \E k \in j..(Len(str) + 1) : LikeFrom(pat, i + 1, str, k)
    ELSE IF j > Len(str) THEN FALSE
    ELSE IF pat[i] = 95 THEN LikeFrom(pat, i + 1, str, j + 1)
    ELSE Fold(pat[i]) = Fold(str[j]) /\ LikeFrom(pat, i + 1, str, j + 1)

Like(pat, str) == LikeFrom(pat, 1, str, 1)

\* WHERE word = ?
ExactRows(t, kw) == SelectSeq(t, LAMBDA k : k = kw)

\* WHERE word LIKE ? AND word != ?   with keyword+"%", keyword
PrefixRows(t, kw) == SelectSeq(t, LAMBDA k : Like(kw \o <<37>>, k) /\ k # kw)

\* WHERE word LIKE ? AND word NOT LIKE ?   with "%"+keyword+"%", keyword+"%"
SubstringRows(t, kw) ==
    SelectSeq(t, LAMBDA k : Like(<<37>> \o kw \o <<37>>, k) /\ ~Like(kw \o <<37>>, k))

\* SELECT DISTINCT: each value once, at its first place
Distinct(rows) == FirstOccurrences(rows, {})

\* LIMIT ?
Take(rows, n) == SubSeq(rows, 1, Min(Len(rows), n))

\* The rows one Query call of a tier delivers from a store.
Query(db, tier, kw, lim, rev) ==
    LET t0 == IF db = "chineseDB" THEN chinese_words ELSE words
        t == IF rev THEN Reverse(t0) ELSE t0
        m == CASE tier = 1 -> ExactRows(t, kw)
               [] tier = 2 -> PrefixRows(t, kw)
               [] tier = 3 -> SubstringRows(t, kw)
    IN Take(IF db = "chineseDB" THEN Distinct(m) ELSE m, lim)

\* for rows.Next() { if rows.Scan(&word) == nil && !seen[word] { append; seen[word] = true } }
\* The loop appends each row's key unless the seen map has it: the rows' keys
\* that are not in seen, each at its first place.
Gather(r, rows) ==
    LET new == FirstOccurrences(rows, r.seen)
    IN [results |-> r.results \o new, seen |-> r.seen \cup Range(new)]

\* A budget that forgets what the earlier tiers collected.
RemainingWhole(n) == limit

\* remaining := limit - len(results)
Remaining(n) == limit - n

\* A search that gives up on a failed Query.
AfterTierAbort(tier, n, err) ==
    IF err \/ tier = 3 \/ n >= limit THEN "done" ELSE IF tier = 1 THEN "prefix" ELSE "substring"

\* if len(results) >= limit { return results }, else on to the next tier
AfterTier(tier, n, err) ==
    IF tier = 3 \/ n >= limit THEN "done" ELSE IF tier = 1 THEN "prefix" ELSE "substring"

\* searchInput.SetChangedFunc's goroutine: isChinese(query) picks the search
Dispatch ==
    /\ spc = "input"
    /\ target' = (IF isChinese(keyword) THEN "chineseDB" ELSE "englishDB")
    /\ spc' = "exact"
    /\ UNCHANGED <<words, chinese_words, keyword, results, seen, calls, tierEnd, histVars, bncVars, buildVars, uiVars>>

\* One tier of searchEnglish / searchChinese: the Query call (which may fail),
\* the rows loop, and the limit test that follows it.
SearchTier(tier, err, rev) ==
    /\ LET rows == IF err THEN <<>>
                   ELSE Query(target, tier, keyword, Remaining(Len(results)), rev)
       IN \E r \in {Gather([results |-> results, seen |-> seen], rows)} :
          /\ results' = r.results
          /\ seen' = r.seen
          /\ tierEnd' = [tierEnd EXCEPT ![tier] = Len(r.results)]
          /\ spc' = AfterTier(tier, Len(r.results), err)
    /\ calls' = Append(calls, [db |-> target, tier |-> tier, err |-> err])
    /\ UNCHANGED <<words, chinese_words, keyword, target, histVars, bncVars, buildVars, uiVars>>

\* 1. exact match
SearchExact == spc = "exact" /\ \E err, rev \in BOOLEAN : SearchTier(1, err, rev)

\* 2. prefix match
SearchPrefix == spc = "prefix" /\ \E err, rev \in BOOLEAN : SearchTier(2, err, rev)

\* 3. substring match
SearchSubstring == spc = "substring" /\ \E err, rev \in BOOLEAN : SearchTier(3, err, rev)

(***************************************************************************)
(* The stores and queries the search runs start from.  For a query q the   *)
(* word table holds, in this rowid order: keys ending in q, a key without  *)
(* q, q's variant (upper case for lower case, x for % and _) alone and     *)
(* followed by q, keys that begin with q, and q itself.  The               *)
(* gloss table is built the same way on q with every character that a      *)
(* gloss cannot hold replaced, and holds each key once (chinese is UNIQUE).*)
(***************************************************************************)
Queries ==
    { <<97>>, <<97, 98>>, <<97, 95>>, <<37>>,
      <<20013>>, <<20013, 25991>>, <<97, 20013>>, <<20013, 95>> }

PrefixCounts == {0, limit - 4, limit + 1}

Variant(q) == [i \in 1..Len(q) |->
                  IF q[i] \in 97..122 THEN q[i] - 32
                  ELSE IF q[i] \in {37, 95} THEN 120 ELSE q[i]]

\* isAllChinese's alphabet: Han, the middle dot and the em dash
GlossBase(q) == [i \in 1..Len(q) |->
                    IF IsHan(q[i]) \/ q[i] \in {183, 8212} THEN q[i] ELSE 25991]

\* The i-th of the word keys that begin with q: q and two lower-case letters.
WordWithPrefix(q, i) == q \o <<97 + (i \div 26), 97 + (i % 26)>>

WordsTable(q, e, nP, d, nS) ==
    [i \in 1..nS |-> <<120 + i>> \o q]
    \o << <<122, 122>> >>
    \o (IF Variant(q) # q THEN <<Variant(q), Variant(q) \o q>> ELSE <<>>)
    \o [j \in 1..(nP * d) |-> WordWithPrefix(q, (j - 1) \div d + 1)]
    \o Copies(q, e)

GlossTable(q, e, nP, nS) ==
    LET g == GlossBase(q)
    IN [i \in 1..nS |-> <<25991 + i>> \o g]
       \o << <<22909>> >>
       \o [i \in 1..nP |-> g \o <<19968 + i>>]
       \o (IF e > 0 THEN <<g>> ELSE <<>>)

\* The search state when no search has been started.
IdleSearch ==
    /\ words = <<>>
    /\ chinese_words = <<>>
    /\ keyword = <<>>
    /\ spc = "input"
    /\ target = "none"
    /\ results = <<>>
    /\ seen = {}
    /\ calls = <<>>
    /\ tierEnd = <<0, 0, 0>>

InitSearch ==
    /\ keyword \in Queries
    /\ \E e \in 0..MaxDup, nP \in PrefixCounts, d \in 1..MaxDup, nS \in 0..MaxSub :
        /\ words = WordsTable(keyword, e, nP, d, nS)
        /\ chinese_words = GlossTable(keyword, e, nP, nS)
    /\ spc = "input"
    /\ target = "none"
    /\ results = <<>>
    /\ seen = {}
    /\ calls = <<>>
    /\ tierEnd = <<0, 0, 0>>

NextSearch ==
    \/ Dispatch
    \/ SearchExact
    \/ SearchPrefix
    \/ SearchSubstring

(***************************************************************************)
(* Frequency ranks                                                         *)
(***************************************************************************)
\* 1 << 30
UnrankedBNC == 1073741824

\* Bound of the frequency strings drawn character by character.
MaxFreqLen == 3

\* unicode.IsSpace, as strings.TrimSpace uses it
IsSpace(c) == c \in {9, 10, 11, 12, 13, 32, 133, 160, 5760, 8232, 8233, 8239, 8287, 12288}
                  \cup (8192..8202)

\* strings.TrimSpace: the text between the first and the last non-space
TrimSpace(str) ==
    LET keep == {i \in 1..Len(str) : ~IsSpace(str[i])}
    IN IF keep = {} THEN <<>>
       ELSE SubSeq(str, CHOOSE i \in keep : \A j \in keep : i <= j,
                        CHOOSE i \in keep : \A j \in keep : j <= i)

\* The digits of a decimal numeral without its leading zeros.
Significant(ds) ==
    LET nz == {i \in 1..Len(ds) : ds[i] # 48}
    IN IF nz = {} THEN <<>>
       ELSE SubSeq(ds, CHOOSE i \in nz : \A j \in nz : i <= j, Len(ds))

\* a <= b for digit strings of one length
DigitsLeq(a, b) ==
    a = b \/ \E i \in 1..Len(a) : a[i] < b[i] /\ \A j \in 1..(i - 1) : a[j] = b[j]

\* 9223372036854775807, 9223372036854775808: the ends of a 64-bit int
MaxIntDigits(neg) ==
    <<57, 50, 50, 51, 51, 55, 50, 48, 51, 54, 56, 53, 52, 55, 55, 53, 56, 48>>
    \o (IF neg THEN <<56>> ELSE <<55>>)

RECURSIVE DigitsValue(_)
DigitsValue(ds) ==
    IF ds = <<>> THEN 0
    ELSE 10 * DigitsValue(SubSeq(ds, 1, Len(ds) - 1)) + (ds[Len(ds)] - 48)

\* strconv.Atoi: an optional sign and decimal digits; a syntax error for
\* anything else, a range error beyond the int's width
Atoi(str) ==
    LET signed == str # <<>> /\ str[1] \in {43, 45}
        neg == signed /\ str[1] = 45
        ds == IF signed THEN Tail(str) ELSE str
        sig == Significant(ds)
    IN IF ds = <<>> \/ \E i \in 1..Len(ds) : ds[i] \notin 48..57
       THEN [n |-> 0, err |-> "syntax"]
       ELSE IF Len(sig) > 19 \/ (Len(sig) = 19 /\ ~DigitsLeq(sig, MaxIntDigits(neg)))
       THEN [n |-> 0, err |-> "range"]
       ELSE [n |-> IF neg THEN 0 - DigitsValue(sig) ELSE DigitsValue(sig), err |-> ""]

\* parseBNC
parseBNC(bnc) ==
    LET t == TrimSpace(bnc)
    IN IF t = <<>> THEN UnrankedBNC
       ELSE LET r == Atoi(t)
            IN IF r.err # "" \/ r.n = 0 THEN UnrankedBNC ELSE r.n

\* sort.Slice's less: engList[i].bnc < engList[j].bnc
RankLess(x, y) == x < y

\* Frequency strings: every string of up to MaxFreqLen characters over
\* space, +, -, 0, 1, 7 and x, and numerals around 1 << 30, at the end of
\* 32 bits and beyond 64 bits.  (Numerals from 2^31 to 2^63 - 1 are left out:
\* their values do not fit the checker's integers.)
FreqChars == {32, 43, 45, 48, 49, 55, 120}

LongFreqs ==
    { <<49, 48, 55, 51, 55, 52, 49, 56, 50, 51>>,
      <<49, 48, 55, 51, 55, 52, 49, 56, 50, 52>>,
      <<49, 48, 55, 51, 55, 52, 49, 56, 50, 53>>,
      <<50, 49, 52, 55, 52, 56, 51, 54, 52, 55>>,
      <<57, 57, 57, 57, 57, 57, 57, 57, 57, 57, 57, 57, 57, 57, 57, 57, 57, 57, 57, 57>> }

Freqs == UNION {[1..n -> FreqChars] : n \in 0..MaxFreqLen} \cup LongFreqs

\* The second record's frequency: one ordinary rank and the long numerals.
OtherFreqs == { <<50, 53>> } \cup LongFreqs

\* CreateChineseDB's bncMap entry for a record: parseBNC(record[8])
RankRecords ==
    /\ bpc = "raw"
    /\ rankA' = parseBNC(freqA)
    /\ rankB' = parseBNC(freqB)
    /\ bpc' = "ranked"
    /\ UNCHANGED <<freqA, freqB, histVars, searchVars, buildVars, uiVars>>

IdleBNC ==
    /\ freqA = <<>>
    /\ freqB = <<>>
    /\ rankA = 0
    /\ rankB = 0
    /\ bpc = "raw"

InitBNC ==
    /\ freqA \in Freqs
    /\ freqB \in OtherFreqs
    /\ rankA = 0
    /\ rankB = 0
    /\ bpc = "raw"

NextBNC == RankRecords

(***************************************************************************)
(* Gloss extraction: extractChineseWords, isAllChinese (converter.go)      *)
(***************************************************************************)
\* Bound: the longest translation built from TransChars.
MaxTransLen == 6

\* k-th smallest member of a set of numbers, for k = 1..size
Ascending(S) ==
    [k \in 1..Cardinality(S) |-> CHOOSE x \in S : Cardinality({y \in S : y < x}) = k - 1]

\* bracketRegex.ReplaceAllString(translation, ""): the places of the argument
\* that remain.  The pattern \[([^\]]*)\]|\(([^)]*)\) matches, leftmost
\* first, an opening bracket up to the next closing bracket of its kind;
\* the scan goes on behind each match.
RECURSIVE BracketKept(_, _)
BracketKept(str, i) ==
    IF i > Len(str) THEN <<>>
    ELSE LET closer == IF str[i] = 40 THEN 41 ELSE IF str[i] = 91 THEN 93 ELSE 0
             ends == {k \in (i + 1)..Len(str) : str[k] = closer}
         IN IF closer # 0 /\ ends # {}
            THEN BracketKept(str, (CHOOSE k \in ends : \A m \in ends : k <= m) + 1)
            ELSE <<i>> \o BracketKept(str, i + 1)

\* the class [,，、;；\s] of the separators pattern (\s is [\t\n\f\r ])
IsSeparator(c) == c \in {44, 65292, 12289, 59, 65307, 9, 10, 12, 13, 32}

\* separators.Split(cleanTranslation, -1): the first places of the non-empty parts
PartStarts(clean) ==
    {a \in 1..Len(clean) : ~IsSeparator(clean[a]) /\ (a = 1 \/ IsSeparator(clean[a - 1]))}

\* the last place of the part that starts at a
PartEnd(clean, a) ==
    CHOOSE b \in a..Len(clean) :
        /\ \A i \in a..b : ~IsSeparator(clean[i])
        /\ (b = Len(clean) \/ IsSeparator(clean[b + 1]))

\* A test that accepts a part as soon as one of its characters qualifies.
isAllChineseSome(text) ==
    text # <<>> /\ \E i \in 1..Len(text) : IsHan(text[i]) \/ text[i] \in {183, 8212}

\* isAllChinese: non-empty, every rune Han or the middle dot or the em dash
isAllChinese(text) ==
    text # <<>> /\ \A i \in 1..Len(text) : IsHan(text[i]) \/ text[i] \in {183, 8212}

\* The parts of a translation after bracket removal, splitting and
\* strings.TrimSpace, in order; each with the places of its characters in
\* the translation.  Parts that are empty after trimming are left out
\* (part == "" -> continue).
Fragments(str) ==
    LET kept == BracketKept(str, 1)
        clean == [k \in 1..Len(kept) |-> str[kept[k]]]
        starts == Ascending(PartStarts(clean))
        part(n) ==
            LET a == starts[n]
                raw == SubSeq(clean, a, PartEnd(clean, a))
                text == TrimSpace(raw)
                lead == CHOOSE d \in 0..Len(raw) :
                            /\ \A i \in 1..d : IsSpace(raw[i])
                            /\ (d = Len(raw) \/ ~IsSpace(raw[d + 1]))
            IN [text |-> text, src |-> SubSeq(kept, a + lead, a + lead + Len(text) - 1)]
    IN SelectSeq([n \in 1..Len(starts) |-> part(n)], LAMBDA p : p.text # <<>>)

\* extractChineseWords: the parts that pass isAllChinese
extractChineseWords(str) == SelectSeq(Fragments(str), LAMBDA p : isAllChinese(p.text))

\* Translations: every string of up to MaxTransLen characters over
\* ( ) , 好 a, and some with the other brackets, separators and spaces.
TransChars == {40, 41, 44, 22909, 97}

PickedTranslations ==
    { <<91, 35745, 93, 32, 22909>>,                 \* "[计] 好"
      <<22909, 183, 20013, 8212, 25991>>,           \* "好·中—文"
      <<12288, 22909, 12288>>,                      \* 好 between ideographic spaces
      <<22909, 12288, 20013>>,                      \* 好, ideographic space, 中
      <<91, 97, 93, 40, 98, 41, 22909>>,            \* "[a](b)好"
      <<91, 91, 93, 22909, 32, 93>>,                \* "[[]好 ]"
      <<22909, 65292, 20013, 12289, 25991, 65307, 97, 59, 20013>>,
      <<110, 46, 32, 22909, 32, 20013, 10, 25991>>, \* "n. 好 中", line feed, 文
      <<21916, 27426, 92, 110, 20687>> }            \* 喜欢, backslash, n, 像

Translations == UNION {[1..n -> TransChars] : n \in 0..MaxTransLen} \cup PickedTranslations

\* chineseWords := extractChineseWords(translation)
ExtractGloss ==
    /\ gpc = "raw"
    /\ \E r \in {extractChineseWords(translation)} :
        /\ chineseWords' = [n \in 1..Len(r) |-> r[n].text]
        /\ wordSrc' = [n \in 1..Len(r) |-> r[n].src]
    /\ gpc' = "extracted"
    /\ UNCHANGED <<translation, histVars, searchVars, bncVars, revVars, fwdVars, convVars, uiVars>>

IdleGloss ==
    /\ translation = <<>>
    /\ chineseWords = <<>>
    /\ wordSrc = <<>>
    /\ gpc = "raw"

InitGloss ==
    /\ translation \in Translations
    /\ chineseWords = <<>>
    /\ wordSrc = <<>>
    /\ gpc = "raw"

NextGloss == ExtractGloss

(***************************************************************************)
(* Reverse index build: CreateChineseDB (converter.go), from the reading   *)
(* of the records to the return                                            *)
(***************************************************************************)
\* Bound: the number of data rows of the corpus.
MaxRecords == 3

\* a map without keys
EmptyMap == [k \in {} |-> 0]

\* m[k] = v
MapPut(m, k, v) == [x \in DOMAIN m \cup {k} |-> IF x = k THEN v ELSE m[x]]

\* s1 + sep + s2 + ... : strings.Join
RECURSIVE Join(_, _)
Join(strs, sep) ==
    IF strs = <<>> THEN <<>>
    ELSE IF Len(strs) = 1 THEN strs[1]
    ELSE strs[1] \o sep \o Join(Tail(strs), sep)

\* len(record) >= 13 && record[3] != ""
Ingested(record) == record.fields >= 13 /\ record.translation # <<>>

\* An entry that every record with the pair overwrites.
PutTranslationAlways(engMap, englishWord, tr) == MapPut(engMap, englishWord, tr)

\* if _, exists := chineseMap[chWord][englishWord]; !exists { ... = translation }
PutTranslation(engMap, englishWord, tr) ==
    IF englishWord \in DOMAIN engMap THEN engMap ELSE MapPut(engMap, englishWord, tr)

\* One round of the aggregation loop: every gloss of the record's translation
\* gets the record's word, with the translation if the pair is new.
Aggregated(cm, record) ==
    LET ex == extractChineseWords(record.translation)
        chWords == {ex[n].text : n \in 1..Len(ex)}
    IN [g \in DOMAIN cm \cup chWords |->
           IF g \in chWords
           THEN PutTranslation(IF g \in DOMAIN cm THEN cm[g] ELSE EmptyMap,
                               record.word, record.translation)
           ELSE cm[g]]

\* The last record of a word.
LastRecordOf(recs, w) ==
    CHOOSE i \in 1..Len(recs) : recs[i].word = w /\ \A j \in (i + 1)..Len(recs) : recs[j].word # w

\* The record that sets bncMap[w]: if _, exists := bncMap[englishWord]; !exists
FirstRecordOf(recs, w) ==
    CHOOSE i \in 1..Len(recs) : recs[i].word = w /\ \A j \in 1..(i - 1) : recs[j].word # w

\* bnc, exists := bncMap[engWord]; if !exists { bnc = 1 << 30 }
BncOf(bm, w) == IF w \in DOMAIN bm THEN bm[w] ELSE UnrankedBNC

\* engList after the range over engMap (any order) and sort.Slice (not
\* stable): every arrangement of the words in which no later word has a
\* smaller rank.
SortedLists(engMap, bm) ==
    {l \in [1..Cardinality(DOMAIN engMap) -> DOMAIN engMap] :
        /\ \A i, j \in DOMAIN l : i # j => l[i] # l[j]
        /\ \A i, j \in DOMAIN l : i < j => ~RankLess(BncOf(bm, l[j]), BncOf(bm, l[i]))}

\* fmt.Sprintf("%s（%s）", info.word, info.def)
Entry(w, def) == w \o <<65288>> \o def \o <<65289>>

\* strings.Join(englishEntries, "\n")
EnglishWords(engList, engMap) ==
    Join([i \in 1..Len(engList) |-> Entry(engList[i], engMap[engList[i]])], <<10>>)

\* the chinese column of a sequence of rows
Keys(rows) == {rows[i].chinese : i \in 1..Len(rows)}

\* the read loop
ReadRecords ==
    /\ rpc = "read"
    /\ allRecords' = SelectSeq(corpus, Ingested)
    /\ ri' = 1
    /\ rpc' = IF allRecords' = <<>> THEN "rank" ELSE "aggregate"
    /\ UNCHANGED <<corpus, chineseMap, bncMap, visited, txRows, glossRows, rret>>
    /\ UNCHANGED <<histVars, searchVars, bncVars, glossVars, fwdVars, convVars, uiVars>>

\* for _, record := range allRecords { ... chineseMap ... }, one round
AggregateRecord ==
    /\ rpc = "aggregate"
    /\ chineseMap' = Aggregated(chineseMap, allRecords[ri])
    /\ ri' = ri + 1
    /\ rpc' = IF ri = Len(allRecords) THEN "rank" ELSE "aggregate"
    /\ UNCHANGED <<corpus, allRecords, bncMap, visited, txRows, glossRows, rret>>
    /\ UNCHANGED <<histVars, searchVars, bncVars, glossVars, fwdVars, convVars, uiVars>>

\* for _, record := range allRecords { ... bncMap ... }
RankWords ==
    /\ rpc = "rank"
    /\ bncMap' = [w \in {allRecords[i].word : i \in 1..Len(allRecords)} |->
                     parseBNC(allRecords[FirstRecordOf(allRecords, w)].bnc)]
    /\ rpc' = "begin"
    /\ UNCHANGED <<corpus, allRecords, chineseMap, ri, visited, txRows, glossRows, rret>>
    /\ UNCHANGED <<histVars, searchVars, bncVars, glossVars, fwdVars, convVars, uiVars>>

\* tx, err := db.Begin()
BeginTx ==
    /\ rpc = "begin"
    /\ \E err \in BOOLEAN :
        IF err THEN rpc' = "returned" /\ rret' = "begin failed"
               ELSE rpc' = "prepare" /\ rret' = rret
    /\ UNCHANGED <<corpus, allRecords, chineseMap, bncMap, ri, visited, txRows, glossRows>>
    /\ UNCHANGED <<histVars, searchVars, bncVars, glossVars, fwdVars, convVars, uiVars>>

\* stmt, err := tx.Prepare(insertSQL); a failure rolls back and returns
PrepareInsert ==
    /\ rpc = "prepare"
    /\ \E err \in BOOLEAN :
        IF err THEN rpc' = "returned" /\ rret' = "prepare failed"
               ELSE rpc' = "insert" /\ rret' = rret
    /\ txRows' = <<>>
    /\ UNCHANGED <<corpus, allRecords, chineseMap, bncMap, ri, visited, glossRows>>
    /\ UNCHANGED <<histVars, searchVars, bncVars, glossVars, fwdVars, convVars, uiVars>>

\* One round of the range over chineseMap: the map hands out its glosses in
\* any order; the row is inserted unless Exec fails, which it does when the
\* table already has the gloss (chinese is UNIQUE) and may do otherwise.
InsertGloss ==
    /\ rpc = "insert"
    /\ \E chWord \in DOMAIN chineseMap \ visited :
        \E engList \in SortedLists(chineseMap[chWord], bncMap) :
            \E err \in BOOLEAN :
                /\ visited' = visited \cup {chWord}
                /\ txRows' =
                     IF err \/ chWord \in Keys(glossRows) \cup Keys(txRows)
                     THEN txRows
                     ELSE Append(txRows,
                                 [chinese |-> chWord,
                                  english_words |-> EnglishWords(engList, chineseMap[chWord])])
    /\ UNCHANGED <<corpus, allRecords, chineseMap, bncMap, rpc, ri, glossRows, rret>>
    /\ UNCHANGED <<histVars, searchVars, bncVars, glossVars, fwdVars, convVars, uiVars>>

\* err = tx.Commit(), after the last round
CommitTx ==
    /\ rpc = "insert"
    /\ visited = DOMAIN chineseMap
    /\ \E err \in BOOLEAN :
        IF err THEN glossRows' = glossRows /\ rret' = "commit failed"
               ELSE glossRows' = glossRows \o txRows /\ rret' = "nil"
    /\ txRows' = <<>>
    /\ rpc' = "returned"
    /\ UNCHANGED <<corpus, allRecords, chineseMap, bncMap, ri, visited>>
    /\ UNCHANGED <<histVars, searchVars, bncVars, glossVars, fwdVars, convVars, uiVars>>

\* Data rows: two source words, translations with one or two glosses or
\* none, frequencies that differ, tie or are missing, and a short row.
CorpusRows ==
    { [word |-> <<97>>, translation |-> <<22909>>, bnc |-> <<53>>, fields |-> 13],
      [word |-> <<97>>, translation |-> <<22909, 44, 20013>>, bnc |-> <<55>>, fields |-> 13],
      [word |-> <<97>>, translation |-> <<>>, bnc |-> <<49>>, fields |-> 13],
      [word |-> <<98>>, translation |-> <<22909>>, bnc |-> <<53>>, fields |-> 13],
      [word |-> <<98>>, translation |-> <<20013, 44, 22909>>, bnc |-> <<>>, fields |-> 13],
      [word |-> <<98>>, translation |-> <<22909>>, bnc |-> <<51>>, fields |-> 13],
      [word |-> <<98>>, translation |-> <<22909>>, bnc |-> <<57>>, fields |-> 12],
      [word |-> <<97>>, translation |-> <<97>>, bnc |-> <<50>>, fields |-> 13] }

\* A row an earlier build left in the table.
StaleRow == [chinese |-> <<22909>>, english_words |-> Entry(<<122>>, <<22909>>)]

IdleReverse ==
    /\ corpus = <<>>
    /\ allRecords = <<>>
    /\ chineseMap = EmptyMap
    /\ bncMap = EmptyMap
    /\ rpc = "idle"
    /\ ri = 1
    /\ visited = {}
    /\ txRows = <<>>
    /\ glossRows = <<>>
    /\ rret = ""

\* The table exists (CREATE TABLE IF NOT EXISTS): empty, or as an earlier
\* build left it.
InitReverse ==
    /\ corpus \in UNION {[1..n -> CorpusRows] : n \in 0..MaxRecords}
    /\ allRecords = <<>>
    /\ chineseMap = EmptyMap
    /\ bncMap = EmptyMap
    /\ rpc = "read"
    /\ ri = 1
    /\ visited = {}
    /\ txRows = <<>>
    /\ glossRows \in {<<>>, <<StaleRow>>}
    /\ rret = ""

NextReverse ==
    \/ ReadRecords
    \/ AggregateRecord
    \/ RankWords
    \/ BeginTx
    \/ PrepareInsert
    \/ InsertGloss
    \/ CommitTx

(***************************************************************************)
(* Forward index build: CreateEnglishDB (converter.go), from the reading   *)
(* of the records to the return                                            *)
(***************************************************************************)
\* Bounds.  The source runs 4 workers on batches of 1000 records; the model
\* keeps the structure with fewer workers and smaller batches.
numWorkers == 2
batchSize == 2
MaxRows == 3

Workers == 1..numWorkers

\* the columns of the INSERT: record[0], record[1], record[2], record[3], record[8]
WordRow(record) ==
    [word |-> record[1], phonetic |-> record[2], definition |-> record[3],
     translation |-> record[4], bnc |-> record[9]]

\* A lock that is never found taken.
CanLockAlways(m) == TRUE

\* dbMutex.Lock() returns
CanLock(m) == m = 0

\* A worker that goes on without giving the lock back.
UnlockForgotten(m) == m

\* dbMutex.Unlock()
Unlock(m) == 0

\* the read loop: if len(record) >= 13 { allRecords = append(allRecords, record) }
ReadRows ==
    /\ ppc = "read"
    /\ records' = SelectSeq(csvRows, LAMBDA r : Len(r) >= 13)
    /\ ppc' = "send"
    /\ UNCHANGED <<csvRows, recordChan, closed, sendAt, wpc, batch, openTx, txWords,
                   dbMutex, batchCount, totalCount, wordRows, fret, failedAt>>
    /\ UNCHANGED <<histVars, searchVars, bncVars, glossVars, revVars, convVars, uiVars>>

\* recordChan <- allRecords[i:end], when the channel has room
SendBatch ==
    /\ ppc = "send"
    /\ sendAt < Len(records)
    /\ Len(recordChan) < numWorkers
    /\ recordChan' = Append(recordChan,
                            SubSeq(records, sendAt + 1, Min(sendAt + batchSize, Len(records))))
    /\ sendAt' = sendAt + batchSize
    /\ UNCHANGED <<csvRows, records, closed, ppc, wpc, batch, openTx, txWords,
                   dbMutex, batchCount, totalCount, wordRows, fret, failedAt>>
    /\ UNCHANGED <<histVars, searchVars, bncVars, glossVars, revVars, convVars, uiVars>>

\* close(recordChan), after the last batch
CloseChan ==
    /\ ppc = "send"
    /\ sendAt >= Len(records)
    /\ closed' = TRUE
    /\ ppc' = "wait"
    /\ UNCHANGED <<csvRows, records, recordChan, sendAt, wpc, batch, openTx, txWords,
                   dbMutex, batchCount, totalCount, wordRows, fret, failedAt>>
    /\ UNCHANGED <<histVars, searchVars, bncVars, glossVars, revVars, convVars, uiVars>>

\* wg.Wait() returns; return nil
WaitWorkers ==
    /\ ppc = "wait"
    /\ \A w \in Workers : wpc[w] = "done"
    /\ ppc' = "returned"
    /\ fret' = "nil"
    /\ UNCHANGED <<csvRows, records, recordChan, closed, sendAt, wpc, batch, openTx, txWords,
                   dbMutex, batchCount, totalCount, wordRows, failedAt>>
    /\ UNCHANGED <<histVars, searchVars, bncVars, glossVars, revVars, convVars, uiVars>>

\* for batch := range recordChan: a batch arrives
Receive(w) ==
    /\ wpc[w] = "recv"
    /\ recordChan # <<>>
    /\ batch' = [batch EXCEPT ![w] = Head(recordChan)]
    /\ recordChan' = Tail(recordChan)
    /\ wpc' = [wpc EXCEPT ![w] = "lock"]
    /\ UNCHANGED <<csvRows, records, closed, sendAt, ppc, openTx, txWords,
                   dbMutex, batchCount, totalCount, wordRows, fret, failedAt>>
    /\ UNCHANGED <<histVars, searchVars, bncVars, glossVars, revVars, convVars, uiVars>>

\* for batch := range recordChan: the channel is closed and empty; wg.Done()
LeaveLoop(w) ==
    /\ wpc[w] = "recv"
    /\ recordChan = <<>>
    /\ closed
    /\ wpc' = [wpc EXCEPT ![w] = "done"]
    /\ UNCHANGED <<csvRows, records, recordChan, closed, sendAt, ppc, batch, openTx, txWords,
                   dbMutex, batchCount, totalCount, wordRows, fret, failedAt>>
    /\ UNCHANGED <<histVars, searchVars, bncVars, glossVars, revVars, convVars, uiVars>>

\* dbMutex.Lock()
LockDb(w) ==
    /\ wpc[w] = "lock"
    /\ CanLock(dbMutex)
    /\ dbMutex' = w
    /\ wpc' = [wpc EXCEPT ![w] = "begin"]
    /\ UNCHANGED <<csvRows, records, recordChan, closed, sendAt, ppc, batch, openTx, txWords,
                   batchCount, totalCount, wordRows, fret, failedAt>>
    /\ UNCHANGED <<histVars, searchVars, bncVars, glossVars, revVars, convVars, uiVars>>

\* tx, err := db.Begin(); on an error: Unlock and continue
BeginBatch(w) ==
    /\ wpc[w] = "begin"
    /\ \E err \in BOOLEAN :
        IF err
        THEN /\ dbMutex' = Unlock(dbMutex)
             /\ wpc' = [wpc EXCEPT ![w] = "recv"]
             /\ UNCHANGED openTx
        ELSE /\ openTx' = [openTx EXCEPT ![w] = TRUE]
             /\ wpc' = [wpc EXCEPT ![w] = "prepare"]
             /\ UNCHANGED dbMutex
    /\ UNCHANGED <<csvRows, records, recordChan, closed, sendAt, ppc, batch, txWords,
                   batchCount, totalCount, wordRows, fret, failedAt>>
    /\ UNCHANGED <<histVars, searchVars, bncVars, glossVars, revVars, convVars, uiVars>>

\* stmt, err := tx.Prepare(insertSQL); on an error: Rollback, Unlock and continue
PrepareBatch(w) ==
    /\ wpc[w] = "prepare"
    /\ \E err \in BOOLEAN :
        IF err
        THEN /\ openTx' = [openTx EXCEPT ![w] = FALSE]
             /\ dbMutex' = Unlock(dbMutex)
             /\ wpc' = [wpc EXCEPT ![w] = "recv"]
        ELSE /\ wpc' = [wpc EXCEPT ![w] = "exec"]
             /\ UNCHANGED <<openTx, dbMutex>>
    /\ UNCHANGED <<csvRows, records, recordChan, closed, sendAt, ppc, batch, txWords,
                   batchCount, totalCount, wordRows, fret, failedAt>>
    /\ UNCHANGED <<histVars, searchVars, bncVars, glossVars, revVars, convVars, uiVars>>

\* An insert loop that stops at the first record whose Exec fails.
ExecutedUntilFailure(n, failed) ==
    SelectSeq([i \in 1..n |-> i], LAMBDA i : \A k \in failed : i < k)

\* the places of a batch of n records whose Exec succeeds, in the loop's
\* order: if err != nil { continue }
Executed(n, failed) == SelectSeq([i \in 1..n |-> i], LAMBDA i : i \notin failed)

\* the insert loop over the batch: a record whose Exec fails is skipped,
\* the others are inserted and counted; stmt.Close()
ExecBatch(w) ==
    /\ wpc[w] = "exec"
    /\ \E failed \in SUBSET (1..Len(batch[w])) :
        LET ok == Executed(Len(batch[w]), failed)
        IN /\ txWords' = [txWords EXCEPT ![w] = [k \in 1..Len(ok) |-> WordRow(batch[w][ok[k]])]]
           /\ batchCount' = [batchCount EXCEPT ![w] = Len(ok)]
           /\ failedAt' = [failedAt EXCEPT ![w] = failed]
    /\ wpc' = [wpc EXCEPT ![w] = "commit"]
    /\ UNCHANGED <<csvRows, records, recordChan, closed, sendAt, ppc, batch, openTx,
                   dbMutex, totalCount, wordRows, fret>>
    /\ UNCHANGED <<histVars, searchVars, bncVars, glossVars, revVars, convVars, uiVars>>

\* err = tx.Commit(); dbMutex.Unlock().  The error is not looked at: after a
\* failed Commit the rows are not in the table.
CommitBatch(w) ==
    /\ wpc[w] = "commit"
    /\ \E err \in BOOLEAN :
        wordRows' = IF err THEN wordRows ELSE wordRows \o txWords[w]
    /\ txWords' = [txWords EXCEPT ![w] = <<>>]
    /\ openTx' = [openTx EXCEPT ![w] = FALSE]
    /\ dbMutex' = Unlock(dbMutex)
    /\ wpc' = [wpc EXCEPT ![w] = "count"]
    /\ UNCHANGED <<csvRows, records, recordChan, closed, sendAt, ppc, batch,
                   batchCount, totalCount, fret, failedAt>>
    /\ UNCHANGED <<histVars, searchVars, bncVars, glossVars, revVars, convVars, uiVars>>

\* atomic.AddInt64(&totalCount, int64(batchCount)), the progress bar, and
\* back to the head of the loop
CountBatch(w) ==
    /\ wpc[w] = "count"
    /\ totalCount' = totalCount + batchCount[w]
    /\ batchCount' = [batchCount EXCEPT ![w] = 0]
    /\ batch' = [batch EXCEPT ![w] = <<>>]
    /\ failedAt' = [failedAt EXCEPT ![w] = {}]
    /\ wpc' = [wpc EXCEPT ![w] = "recv"]
    /\ UNCHANGED <<csvRows, records, recordChan, closed, sendAt, ppc, openTx, txWords,
                   dbMutex, wordRows, fret>>
    /\ UNCHANGED <<histVars, searchVars, bncVars, glossVars, revVars, convVars, uiVars>>

\* Data rows of 13 fields (two of them homographs) and one of 12.
CsvRowFamily ==
    { <<"like", "laik", "similar to", "xihuan", "", "", "", "", "25", "", "", "", "">>,
      <<"like", "laik", "enjoy", "xiang", "", "", "", "", "", "", "", "", "">>,
      <<"cat", "", "", "mao", "", "", "", "", "7", "", "", "">> }

IdleForward ==
    /\ csvRows = <<>>
    /\ records = <<>>
    /\ recordChan = <<>>
    /\ closed = FALSE
    /\ sendAt = 0
    /\ ppc = "idle"
    /\ wpc = [w \in Workers |-> "idle"]
    /\ batch = [w \in Workers |-> <<>>]
    /\ openTx = [w \in Workers |-> FALSE]
    /\ txWords = [w \in Workers |-> <<>>]
    /\ dbMutex = 0
    /\ batchCount = [w \in Workers |-> 0]
    /\ totalCount = 0
    /\ wordRows = <<>>
    /\ fret = ""
    /\ failedAt = [w \in Workers |-> {}]

InitForward ==
    /\ csvRows \in UNION {[1..n -> CsvRowFamily] : n \in 0..MaxRows}
    /\ records = <<>>
    /\ recordChan = <<>>
    /\ closed = FALSE
    /\ sendAt = 0
    /\ ppc = "read"
    /\ wpc = [w \in Workers |-> "recv"]
    /\ batch = [w \in Workers |-> <<>>]
    /\ openTx = [w \in Workers |-> FALSE]
    /\ txWords = [w \in Workers |-> <<>>]
    /\ dbMutex = 0
    /\ batchCount = [w \in Workers |-> 0]
    /\ totalCount = 0
    /\ wordRows = <<>>
    /\ fret = ""
    /\ failedAt = [w \in Workers |-> {}]

\* the steps of CreateEnglishDB itself
Producer == ReadRows \/ SendBatch \/ CloseChan \/ WaitWorkers

\* the steps of one worker goroutine
Worker(w) ==
    \/ Receive(w) \/ LeaveLoop(w) \/ LockDb(w) \/ BeginBatch(w)
    \/ PrepareBatch(w) \/ ExecBatch(w) \/ CommitBatch(w) \/ CountBatch(w)

NextForward ==
    \/ ReadRows
    \/ SendBatch
    \/ CloseChan
    \/ WaitWorkers
    \/ \E w \in Workers :
        \/ Receive(w)
        \/ LeaveLoop(w)
        \/ LockDb(w)
        \/ BeginBatch(w)
        \/ PrepareBatch(w)
        \/ ExecBatch(w)
        \/ CommitBatch(w)
        \/ CountBatch(w)

(***************************************************************************)
(* RunConverter and the set-up part of CreateEnglishDB and CreateChineseDB *)
(* (converter.go); the two builds proper are single steps here             *)
(***************************************************************************)
\* Bound: the number of records of the corpus.
MaxCorpus == 2

Steps == {"english", "chinese"}

\* a store file that is not there, and one a finished build left
NoFile == [file |-> FALSE, table |-> FALSE, index |-> FALSE, rows |-> 0]
BuiltFile(n) == [file |-> TRUE, table |-> TRUE, index |-> TRUE, rows |-> n]

\* the frame of a set-up step
ConvFrame ==
    /\ UNCHANGED <<nrec, cfn, started, inserted>>
    /\ UNCHANGED <<histVars, searchVars, bncVars, glossVars, revVars, fwdVars, uiVars>>

\* One set-up step: the position moves to next, or the build step returns
\* the error why (return fmt.Errorf(...)), which RunConverter returns in turn
\* (if err != nil { return fmt.Errorf(...) }).
SetupStep(at, next, why, err) ==
    /\ cpc = at
    /\ IF err THEN cpc' = "returned" /\ cret' = <<cfn, why>>
              ELSE cpc' = next /\ cret' = cret

\* file, err := os.Open(csvFile)
OpenCsv ==
    /\ \E err \in BOOLEAN : SetupStep("csv", "open", "csv", err)
    /\ UNCHANGED store
    /\ ConvFrame

\* db, err := sql.Open("sqlite", ...): the file is not touched yet
OpenStore ==
    /\ \E err \in BOOLEAN : SetupStep("open", "table", "open", err)
    /\ UNCHANGED store
    /\ ConvFrame

\* db.Exec(CREATE TABLE IF NOT EXISTS ...): the first statement, which
\* creates the file (mode=rwc); a failure may come before or after that
CreateTable ==
    /\ \E err \in BOOLEAN :
        /\ SetupStep("table", "index", "table", err)
        /\ IF err
           THEN \E made \in BOOLEAN :
                   store' = [store EXCEPT ![cfn].file = @ \/ made]
           ELSE store' = [store EXCEPT ![cfn].file = TRUE, ![cfn].table = TRUE]
    /\ ConvFrame

\* db.Exec(CREATE INDEX IF NOT EXISTS ...)
CreateIndex ==
    /\ \E err \in BOOLEAN :
        /\ SetupStep("index", "pragma", "index", err)
        /\ store' = IF err THEN store ELSE [store EXCEPT ![cfn].index = TRUE]
    /\ ConvFrame

\* db.Exec("PRAGMA synchronous = NORMAL")
SetPragma ==
    /\ \E err \in BOOLEAN : SetupStep("pragma", "header", "pragma", err)
    /\ UNCHANGED store
    /\ ConvFrame

\* _, err = reader.Read(): the header row
ReadHeader ==
    /\ \E err \in BOOLEAN : SetupStep("header", "build", "header", err)
    /\ UNCHANGED store
    /\ ConvFrame

\* The forward build proper: the workers insert the records, fewer when store
\* operations fail; CreateEnglishDB returns nil and RunConverter calls
\* CreateChineseDB.
BuildWords ==
    /\ cpc = "build"
    /\ cfn = "english"
    /\ \E n \in 0..nrec :
        /\ store' = [store EXCEPT !["english"].rows = @ + n]
        /\ inserted' = IF n > 0 THEN inserted \cup {"english"} ELSE inserted
    /\ cfn' = "chinese"
    /\ cpc' = "csv"
    /\ started' = started \cup {"chinese"}
    /\ UNCHANGED <<nrec, cret>>
    /\ UNCHANGED <<histVars, searchVars, bncVars, glossVars, revVars, fwdVars, uiVars>>

\* The reverse build proper: one transaction; Begin, Prepare or Commit may
\* fail and make CreateChineseDB return the error; else the rows are
\* committed and RunConverter returns nil.
BuildGlosses ==
    /\ cpc = "build"
    /\ cfn = "chinese"
    /\ \E why \in {"", "begin", "prepare", "commit"} : \E n \in 0..nrec :
        /\ (why = "commit" \/ why = "" \/ n = 0)
        /\ store' = IF why = "" THEN [store EXCEPT !["chinese"].rows = @ + n] ELSE store
        /\ inserted' = IF n > 0 THEN inserted \cup {"chinese"} ELSE inserted
        /\ cret' = IF why = "" THEN <<"nil">> ELSE <<"chinese", why>>
    /\ cpc' = "returned"
    /\ UNCHANGED <<nrec, cfn, started>>
    /\ UNCHANGED <<histVars, searchVars, bncVars, glossVars, revVars, fwdVars, uiVars>>

IdleConverter ==
    /\ nrec = 0
    /\ store = [d \in Steps |-> NoFile]
    /\ cfn = "english"
    /\ cpc = "idle"
    /\ started = {}
    /\ inserted = {}
    /\ cret = <<>>

\* main calls RunConverter when at least one of the two store files is
\* missing; CreateEnglishDB goes first.
InitConverter ==
    /\ nrec \in 0..MaxCorpus
    /\ \E en, zh \in BOOLEAN :
        /\ ~(en /\ zh)
        /\ store = [d \in Steps |->
                       IF (d = "english" /\ en) \/ (d = "chinese" /\ zh)
                       THEN BuiltFile(nrec) ELSE NoFile]
    /\ cfn = "english"
    /\ cpc = "csv"
    /\ started = {"english"}
    /\ inserted = {}
    /\ cret = <<>>

NextConverter ==
    \/ OpenCsv
    \/ OpenStore
    \/ CreateTable
    \/ CreateIndex
    \/ SetPragma
    \/ ReadHeader
    \/ BuildWords
    \/ BuildGlosses

\* the index build at rest
IdleBuild == IdleGloss /\ IdleReverse /\ IdleForward /\ IdleConverter

(***************************************************************************)
(* The user interface: main's callbacks on the input field and the word    *)
(* list (README.md)                                                        *)
(***************************************************************************)
\* Bound: the number of times the user changes the input.
MaxTyped == 2

\* the texts the user types, and what a search finds for them
UiQueries == {"", "a", "b"}

SearchOutcome(query) == IF query = "a" THEN <<"a", "ab">> ELSE <<"b">>

\* getRandomWords(20), for an empty history
Recommended == <<"the", "of">>

\* addToHistory as a whole, on the list it leaves: the word's first
\* occurrence removed, the word put in front, the list cut to maxHistorySize
AddedHistory(hist, w) ==
    LET i == FirstIndex(hist, w)
        rest == IF i = 0 THEN hist
                ELSE SubSeq(hist, 1, i - 1) \o SubSeq(hist, i + 1, Len(hist))
        whole == <<w>> \o rest
    IN SubSeq(whole, 1, Min(Len(whole), maxHistorySize))

\* the history variables after addToHistory(w), run under historyMutex by the
\* one thread that draws the interface
HistoryGets(w) ==
    /\ heap' = [heap EXCEPT ![1] = AddedHistory(Hist, w)]
    /\ searchHistory' = [arr |-> 1, len |-> Len(AddedHistory(Hist, w))]
    /\ UNCHANGED <<historyMutex, pc, word, snap, lastWhole, lastKey, ops>>

\* the variables the interface never touches
UiFrame == UNCHANGED <<searchVars, bncVars, buildVars>>

\* the list items an update installs: text, captured index, and whether the
\* item's callback calls addToHistory
Items(res, adds) == [i \in 1..Len(res) |-> [text |-> res[i], index |-> i, adds |-> adds]]

\* searchInput.SetChangedFunc: the list is cleared, the timer stopped; an
\* empty text empties searchResults and calls showInitialWords, any other
\* starts a search goroutine and the 5-second timer
TypeText(q) ==
    /\ ~crashed
    /\ typed < MaxTyped
    /\ q # searchInput
    /\ searchInput' = q
    /\ wordList' = <<>>
    /\ current' = 0
    /\ focus' = "input"
    /\ typed' = typed + 1
    /\ IF q = ""
       THEN /\ searchResults' = <<>>
            /\ tasks' = tasks \cup {[id |-> typed + 1, kind |-> "initial", query |-> q,
                                     at |-> "start", results |-> <<>>, starred |-> FALSE]}
            /\ timerArmed' = FALSE
       ELSE /\ searchResults' = searchResults
            /\ tasks' = tasks \cup {[id |-> typed + 1, kind |-> "search", query |-> q,
                                     at |-> "start", results |-> <<>>, starred |-> FALSE]}
            /\ timerArmed' = TRUE
    /\ lastEvent' = "other"
    /\ UNCHANGED <<uiQueue, crashed, lastText, histVars>>
    /\ UiFrame

\* a goroutine's first part: the search, or getSearchHistory() and, for an
\* empty history, getRandomWords(20)
TaskCompute(t) ==
    /\ ~crashed
    /\ t \in tasks
    /\ t.at = "start"
    /\ tasks' = (tasks \ {t}) \cup
           {[t EXCEPT !.at = "have",
                      !.results = IF t.kind = "search" THEN SearchOutcome(t.query)
                                  ELSE IF Hist = <<>> THEN Recommended ELSE Hist,
                      !.starred = (t.kind = "initial" /\ Hist # <<>>)]}
    /\ lastEvent' = "other"
    /\ UNCHANGED <<searchInput, searchResults, wordList, current, focus, uiQueue, timerArmed,
                   typed, crashed, lastText, histVars>>
    /\ UiFrame

\* A store that is dropped when the input has changed since the goroutine
\* was started.
StoredIfCurrent(t) == IF t.query = searchInput THEN t.results ELSE searchResults

\* what a goroutine's store leaves in searchResults
Stored(t) == t.results

\* searchMutex.Lock(); searchResults = results; searchMutex.Unlock()
TaskStore(t) ==
    /\ ~crashed
    /\ t \in tasks
    /\ t.at = "have"
    /\ searchResults' = Stored(t)
    /\ tasks' = (tasks \ {t}) \cup {[t EXCEPT !.at = "stored"]}
    /\ lastEvent' = "other"
    /\ UNCHANGED <<searchInput, wordList, current, focus, uiQueue, timerArmed,
                   typed, crashed, lastText, histVars>>
    /\ UiFrame

\* app.QueueUpdateDraw(func() { ... }), the end of the goroutine
TaskQueue(t) ==
    /\ ~crashed
    /\ t \in tasks
    /\ t.at = "stored"
    /\ uiQueue' = Append(uiQueue, [kind |-> t.kind, results |-> t.results])
    /\ tasks' = tasks \ {t}
    /\ lastEvent' = "other"
    /\ UNCHANGED <<searchInput, searchResults, wordList, current, focus, timerArmed,
                   typed, crashed, lastText, histVars>>
    /\ UiFrame

\* the timer set with time.AfterFunc(5*time.Second, ...) fires and queues
\* its update
TimerFire ==
    /\ ~crashed
    /\ timerArmed
    /\ timerArmed' = FALSE
    /\ uiQueue' = Append(uiQueue, [kind |-> "timer", results |-> <<>>])
    /\ lastEvent' = "other"
    /\ UNCHANGED <<searchInput, searchResults, wordList, current, focus, tasks,
                   typed, crashed, lastText, histVars>>
    /\ UiFrame

\* wordList.GetCurrentItem(), counted from 1: the first position for an
\* empty list as well
CurrentItem == IF current = 0 THEN 1 ELSE current

\* The interface thread runs the next queued update.  A list update clears
\* the list and adds one item per result: the items of a search call
\* addToHistory when selected, those of showInitialWords do not.  The timer's
\* update adds the current result to the history and moves the focus to the
\* list, if the focus is still on a non-empty input.
RunUpdate ==
    /\ ~crashed
    /\ uiQueue # <<>>
    /\ uiQueue' = Tail(uiQueue)
    /\ LET u == Head(uiQueue)
       IN IF u.kind = "timer"
          THEN /\ IF focus = "input" /\ searchInput # ""
                  THEN /\ focus' = "list"
                       /\ IF Len(searchResults) > 0 /\ CurrentItem <= Len(searchResults)
                          THEN HistoryGets(searchResults[CurrentItem])
                          ELSE UNCHANGED histVars
                  ELSE UNCHANGED <<focus, histVars>>
               /\ UNCHANGED <<wordList, current>>
          ELSE /\ wordList' = Items(u.results, u.kind = "search")
               /\ current' = IF u.results = <<>> THEN 0 ELSE 1
               /\ UNCHANGED <<focus, histVars>>
    /\ lastEvent' = "other"
    /\ UNCHANGED <<searchInput, searchResults, tasks, timerArmed, typed, crashed, lastText>>
    /\ UiFrame

\* A mouse click on the i-th item: the list takes the focus, the item
\* becomes the current one (wordList.SetChangedFunc only loads the detail),
\* and the item's callback runs: it reads searchResults at the index it
\* captured, which panics past the end, and a search item's callback then
\* calls addToHistory.
ClickItem(i) ==
    /\ ~crashed
    /\ i \in 1..Len(wordList)
    /\ focus' = "list"
    /\ current' = i
    /\ IF wordList[i].index > Len(searchResults)
       THEN crashed' = TRUE /\ UNCHANGED histVars
       ELSE /\ crashed' = crashed
            /\ IF wordList[i].adds
               THEN HistoryGets(searchResults[wordList[i].index])
               ELSE UNCHANGED histVars
    /\ lastEvent' = "click"
    /\ lastText' = wordList[i].text
    /\ UNCHANGED <<searchInput, searchResults, wordList, tasks, uiQueue, timerArmed, typed>>
    /\ UiFrame

\* An arrow key: mainLayout.SetInputCapture moves the focus to the list, the
\* list moves its selection (SetWrapAround(false)), wordList.SetChangedFunc loads
\* the detail without touching the history.
MoveSelection(d) ==
    /\ ~crashed
    /\ wordList # <<>>
    /\ focus' = "list"
    /\ current' = IF current + d < 1 THEN 1
                  ELSE IF current + d > Len(wordList) THEN Len(wordList)
                  ELSE current + d
    /\ lastEvent' = "move"
    /\ UNCHANGED <<searchInput, searchResults, wordList, tasks, uiQueue, timerArmed,
                   typed, crashed, lastText, histVars>>
    /\ UiFrame

\* Tab: the focus goes from the input to the list, to the detail view and back
TabKey ==
    /\ ~crashed
    /\ focus' = IF focus = "input" THEN "list" ELSE IF focus = "list" THEN "detail" ELSE "input"
    /\ lastEvent' = "other"
    /\ UNCHANGED <<searchInput, searchResults, wordList, current, tasks, uiQueue, timerArmed,
                   typed, crashed, lastText, histVars>>
    /\ UiFrame

IdleUI ==
    /\ searchInput = ""
    /\ searchResults = <<>>
    /\ wordList = <<>>
    /\ current = 0
    /\ focus = "input"
    /\ tasks = {}
    /\ uiQueue = <<>>
    /\ timerArmed = FALSE
    /\ typed = 0
    /\ crashed = FALSE
    /\ lastEvent = ""
    /\ lastText = ""

\* main has built the widgets and called showInitialWords()
InitUI ==
    /\ searchInput = ""
    /\ searchResults = <<>>
    /\ wordList = <<>>
    /\ current = 0
    /\ focus = "input"
    /\ tasks = {[id |-> 0, kind |-> "initial", query |-> "", at |-> "start",
                 results |-> <<>>, starred |-> FALSE]}
    /\ uiQueue = <<>>
    /\ timerArmed = FALSE
    /\ typed = 0
    /\ crashed = FALSE
    /\ lastEvent = ""
    /\ lastText = ""

NextUI ==
    \/ \E q \in UiQueries : TypeText(q)
    \/ \E t \in tasks : TaskCompute(t)
    \/ \E t \in tasks : TaskStore(t)
    \/ \E t \in tasks : TaskQueue(t)
    \/ TimerFire
    \/ RunUpdate
    \/ \E i \in 1..Len(wordList) : ClickItem(i)
    \/ \E d \in {-1, 1} : MoveSelection(d)
    \/ TabKey

\* The steps of a user who only types: the input changes, the goroutines
\* they start, the timer and the queued updates.
NextTyping ==
    \/ \E q \in UiQueries : TypeText(q)
    \/ \E t \in tasks : TaskCompute(t)
    \/ \E t \in tasks : TaskStore(t)
    \/ \E t \in tasks : TaskQueue(t)
    \/ TimerFire
    \/ RunUpdate

(***************************************************************************)
(* Specifications                                                          *)
(***************************************************************************)
StartHistory == IdleSearch /\ IdleBNC /\ IdleBuild /\ IdleUI /\ InitHistory

SpecHistory == StartHistory /\ [][NextHistory]_vars

StartSearch == IdleHistory /\ IdleBNC /\ IdleBuild /\ IdleUI /\ InitSearch

StartBNC == IdleHistory /\ IdleSearch /\ IdleBuild /\ IdleUI /\ InitBNC

SpecBNC == StartBNC /\ [][NextBNC]_vars

SpecSearch == StartSearch /\ [][NextSearch]_vars

StartGloss == IdleHistory /\ IdleSearch /\ IdleBNC /\ IdleReverse /\ IdleForward /\ IdleConverter /\ IdleUI /\ InitGloss

StartReverse == IdleHistory /\ IdleSearch /\ IdleBNC /\ IdleGloss /\ IdleForward /\ IdleConverter /\ IdleUI /\ InitReverse

StartForward == IdleHistory /\ IdleSearch /\ IdleBNC /\ IdleGloss /\ IdleReverse /\ IdleConverter /\ IdleUI /\ InitForward

SpecForward == StartForward /\ [][NextForward]_vars

\* The Go scheduler runs every goroutine that can take a step: the producer
\* and each worker go on as long as they are not blocked.
SpecForwardLive ==
    /\ StartForward
    /\ [][NextForward]_vars
    /\ WF_vars(Producer)
    /\ \A w \in Workers : WF_vars(Worker(w))

StartConverter ==
    IdleHistory /\ IdleSearch /\ IdleBNC /\ IdleGloss /\ IdleReverse /\ IdleForward /\ IdleUI
                /\ InitConverter

SpecConverter == StartConverter /\ [][NextConverter]_vars

\* the program starts with an empty history
StartUI == IdleHistory /\ IdleSearch /\ IdleBNC /\ IdleBuild /\ InitUI

SpecUI == StartUI /\ [][NextUI]_vars

SpecTyping == StartUI /\ [][NextTyping]_vars

SpecReverse == StartReverse /\ [][NextReverse]_vars

SpecGloss == StartGloss /\ [][NextGloss]_vars

(***************************************************************************)
(* Claims about the recency cache                                          *)
(***************************************************************************)
\* The step on which caller p's addToHistory returns.
AddReturns(p) == pc[p] = "add_limit" /\ pc'[p] = "idle"

\* k followed by h without k, cut to n elements.
MovedToFront(h, k, n) ==
    LET r == <<k>> \o SelectSeq(h, LAMBDA x : x # k)
    IN SubSeq(r, 1, Min(Len(r), n))

\* C1: the recency list never holds a key twice (in any state, under every
\* interleaving of callers), and an add of a key that is already in the list
\* leaves the length unchanged and the key at the front.
C1_NoDuplicates ==
    /\ [](NoDup(Hist))
    /\ [][\A p \in Callers :
            (AddReturns(p) /\ word[p] \in Range(lastWhole)) =>
                /\ Len(Hist') = Len(lastWhole)
                /\ Hist'[1] = word[p]]_vars

\* C1 witness: the tail of a full list was added again and is now at the front.
C1_Witness ==
    /\ historyMutex = 0
    /\ ops = 1
    /\ lastKey = 1
    /\ Len(Hist) = maxHistorySize
    /\ Hist[1] = 1
    /\ Hist[maxHistorySize] = 2

\* C2: whenever no add is in progress the list has at most 20 elements, and an
\* add of a key not in a full list of 20 leaves 20 elements: the old ones
\* without the former tail, and the new key.
C2_Bounded ==
    /\ [](historyMutex = 0 => Len(Hist) <= maxHistorySize)
    /\ [](\A p \in Callers : Len(View(heap, snap[p])) <= maxHistorySize)
    /\ [][\A p \in Callers :
            (AddReturns(p) /\ word[p] \notin Range(lastWhole)
                           /\ Len(lastWhole) = maxHistorySize) =>
                /\ Len(Hist') = maxHistorySize
                /\ Range(Hist') = (Range(lastWhole) \ {lastWhole[maxHistorySize]})
                                      \cup {word[p]}
                /\ lastWhole[maxHistorySize] \notin Range(Hist')]_vars

\* C2 witness: a new word was added to the full list 20..1 and the tail, 1, is gone.
C2_Witness ==
    /\ historyMutex = 0
    /\ lastKey = maxHistorySize + 1
    /\ Hist = <<maxHistorySize + 1>> \o SubSeq(Descending(maxHistorySize), 1, maxHistorySize - 1)

\* C3: an add of k to the list h leaves k followed by h without k, in h's order,
\* cut to 20; an add of the key of the previous add leaves the list as it was.
C3_MoveToFront ==
    [][\A p \in Callers :
        AddReturns(p) =>
            /\ Hist' = MovedToFront(lastWhole, word[p], maxHistorySize)
            /\ (lastKey = word[p] => Hist' = lastWhole)]_vars

\* C3 witness: the word of the previous add is added again to a full list and
\* the second add is about to return.
C3_Witness ==
    \E p \in Callers :
        /\ pc[p] = "add_limit"
        /\ word[p] = lastKey
        /\ word[p] = maxHistorySize \div 2
        /\ Len(lastWhole) = maxHistorySize
        /\ Hist = lastWhole

\* C4: a snapshot, once returned, is never changed by an add, and at the moment
\* it is taken it equals the list as the last whole add left it.
C4_SnapshotIndependent ==
    [][\A p \in Callers :
        /\ (pc[p] = "have" /\ pc'[p] = "have") =>
               View(heap', snap'[p]) = View(heap, snap[p])
        /\ (pc[p] = "get_copy" /\ pc'[p] = "have") =>
               View(heap', snap'[p]) = lastWhole]_vars

\* C4 witness: a caller holds the snapshot 20..1 while a later add has moved a
\* word from the middle of the list to the front.
C4_Witness ==
    \E p \in Callers :
        /\ pc[p] = "have"
        /\ historyMutex = 0
        /\ View(heap, snap[p]) = Descending(maxHistorySize)
        /\ lastKey = maxHistorySize \div 2
        /\ Hist[1] = maxHistorySize \div 2
        /\ Hist # View(heap, snap[p])

(***************************************************************************)
(* Claims about the search engine                                          *)
(***************************************************************************)
\* k begins with q, character for character
LiteralPrefix(q, k) == Len(k) >= Len(q) /\ SubSeq(k, 1, Len(q)) = q

\* q occurs in k, character for character
LiteralContains(q, k) == \E i \in 0..(Len(k) - Len(q)) : SubSeq(k, i + 1, i + Len(q)) = q

\* 1: equal to q; 2: begins with q, not equal; 3: contains q, not at the start;
\* 0: does not contain q
MatchClass(q, k) ==
    IF k = q THEN 1
    ELSE IF LiteralPrefix(q, k) THEN 2
    ELSE IF LiteralContains(q, k) THEN 3 ELSE 0

\* C5: a search result never holds a key twice and never more than 100 keys,
\* and every tier only appends: what was collected stays an initial part.
C5_DistinctCapped ==
    /\ [](NoDup(results) /\ Len(results) <= limit)
    /\ [][IsInitialPart(results, results')]_vars

\* C5 witness: a finished search of the word table, which holds the query's
\* key in several rows; all three tiers added keys and the third was cut
\* short by the cap.
C5_Witness ==
    /\ spc = "done"
    /\ target = "englishDB"
    /\ Len(ExactRows(words, keyword)) > 1
    /\ 0 < tierEnd[1] /\ tierEnd[1] < tierEnd[2] /\ tierEnd[2] < tierEnd[3]
    /\ Len(results) = limit
    /\ Len(SubstringRows(words, keyword)) > limit - tierEnd[2]

\* C6: in a finished search every key equal to the query comes before every
\* key that only begins with it, and those before every key that holds the
\* query only further inside.
C6_TierOrder ==
    spc = "done" =>
        \A i, j \in 1..Len(results) :
            (i < j /\ MatchClass(keyword, results[i]) > 0
                   /\ MatchClass(keyword, results[j]) > 0) =>
                MatchClass(keyword, results[i]) <= MatchClass(keyword, results[j])

\* C7: every key of a finished search contains the query; the keys of the
\* exact tier equal it, those of the prefix tier begin with it and differ
\* from it, those of the substring tier do not begin with it.
C7_ContainsQuery ==
    spc = "done" =>
        \A i \in 1..Len(results) :
            /\ LiteralContains(keyword, results[i])
            /\ i <= tierEnd[1] => results[i] = keyword
            /\ (tierEnd[1] < i /\ i <= tierEnd[2]) =>
                   (LiteralPrefix(keyword, results[i]) /\ results[i] # keyword)
            /\ (tierEnd[2] < i /\ tierEnd[2] > 0) => ~LiteralPrefix(keyword, results[i])

\* C8: the gloss store is the one searched exactly when some character of the
\* query is Han, the word store otherwise, and every Query call of a search
\* goes to that one store.
C8_Dispatch ==
    /\ spc # "input" =>
          /\ target \in {"chineseDB", "englishDB"}
          /\ (target = "chineseDB") <=> (\E i \in 1..Len(keyword) : IsHan(keyword[i]))
    /\ \A i \in 1..Len(calls) : calls[i].db = target
    /\ spc = "done" => Cardinality({calls[i].db : i \in 1..Len(calls)}) = 1

\* C8 witness: a finished search for a query of a Latin letter followed by a
\* Han character went to the gloss store three times.
C8_Witness ==
    /\ spc = "done"
    /\ keyword = <<97, 20013>>
    /\ Len(calls) = 3
    /\ \A i \in 1..3 : calls[i].db = "chineseDB"

\* C9: a failed Query leaves the result as it was and the search goes on to
\* the next tier; a search that ends below the cap has queried all three
\* tiers, whatever failed.
C9_TierErrorSkipped ==
    /\ [][(Len(calls') = Len(calls) + 1 /\ calls'[Len(calls')].err) =>
            /\ results' = results
            /\ seen' = seen
            /\ spc' = (CASE calls'[Len(calls')].tier = 1 -> "prefix"
                         [] calls'[Len(calls')].tier = 2 -> "substring"
                         [] calls'[Len(calls')].tier = 3 -> "done")]_vars
    /\ [](spc = "done" /\ Len(results) < limit =>
            [i \in 1..Len(calls) |-> calls[i].tier] = <<1, 2, 3>>)

\* C9 witness: the prefix tier's Query failed; the key of the exact tier was
\* kept and the substring tier still added keys.
C9_Witness ==
    /\ spc = "done"
    /\ [i \in 1..Len(calls) |-> calls[i].err] = <<FALSE, TRUE, FALSE>>
    /\ tierEnd[1] = 1
    /\ tierEnd[2] = 1
    /\ Len(results) > 1
    /\ results[1] = keyword

\* the keys of the searched table that contain the query
ContainingKeys ==
    {k \in Range(IF target = "chineseDB" THEN chinese_words ELSE words) :
        LiteralContains(keyword, k)}

\* C26: a finished search in which no Query failed holds every key of the
\* searched table that contains the query, if these are at most 100
\* different keys, however many rows the table has for one key.
C26_CompleteUnderCap ==
    (spc = "done" /\ \A i \in 1..Len(calls) : ~calls[i].err) =>
        (Cardinality(ContainingKeys) <= limit => ContainingKeys \subseteq Range(results))

(***************************************************************************)
(* Claims about frequency ranks                                            *)
(***************************************************************************)
\* The frequency string is empty, not a numeral the int can hold, or zero.
IsUnranked(f) ==
    \/ TrimSpace(f) = <<>>
    \/ Atoi(TrimSpace(f)).err # ""
    \/ Atoi(TrimSpace(f)).n = 0

\* The frequency string is a numeral with a value above zero.
IsValidPositive(f) == ~IsUnranked(f) /\ Atoi(TrimSpace(f)).n > 0

\* C10: an empty, zero or non-numeric frequency gets the rank 1 << 30, any
\* other its value, and a record without rank sorts after every record with
\* a valid positive rank.
C10_SentinelLast ==
    bpc = "ranked" =>
        /\ IsUnranked(freqA) => rankA = UnrankedBNC
        /\ ~IsUnranked(freqA) => rankA = Atoi(TrimSpace(freqA)).n
        /\ (IsUnranked(freqA) /\ IsValidPositive(freqB)) =>
               (RankLess(rankB, rankA) /\ ~RankLess(rankA, rankB))

(***************************************************************************)
(* Claims about gloss extraction                                           *)
(***************************************************************************)
GlossChar(c) == IsHan(c) \/ c \in {183, 8212}

\* the characters of the translation at the places src
TextAt(src) == [i \in 1..Len(src) |-> translation[src[i]]]

\* C15: every returned gloss is non-empty and made only of Han characters,
\* the middle dot and the em dash; the glosses come in the order of their
\* occurrence in the translation; and the glosses are exactly the fragments
\* without any other character, so a fragment with another character
\* contributes nothing.
C15_OnlyGlossFragments ==
    gpc = "extracted" =>
        /\ \A n \in 1..Len(chineseWords) :
            /\ chineseWords[n] # <<>>
            /\ \A i \in 1..Len(chineseWords[n]) : GlossChar(chineseWords[n][i])
            /\ chineseWords[n] = TextAt(wordSrc[n])
            /\ \A i \in 1..(Len(wordSrc[n]) - 1) : wordSrc[n][i] < wordSrc[n][i + 1]
        /\ \A n \in 1..(Len(chineseWords) - 1) :
            wordSrc[n][Len(wordSrc[n])] < wordSrc[n + 1][1]
        /\ LET pure == SelectSeq(Fragments(translation),
                                 LAMBDA p : \A i \in 1..Len(p.text) : GlossChar(p.text[i]))
           IN wordSrc = [n \in 1..Len(pure) |-> pure[n].src]

\* Two glosses returned, and a fragment with a Han character and another
\* character discarded.
C15_Witness ==
    /\ gpc = "extracted"
    /\ Len(chineseWords) >= 2
    /\ \E n \in 1..Len(Fragments(translation)) :
        LET t == Fragments(translation)[n].text
        IN (\E i \in 1..Len(t) : IsHan(t[i])) /\ (\E i \in 1..Len(t) : ~GlossChar(t[i]))

\* the brackets of one kind between the places j and k are balanced
Balanced(str, j, k, open, close) ==
    LET depth(m) == Cardinality({i \in (j + 1)..m : str[i] = open})
                    - Cardinality({i \in (j + 1)..m : str[i] = close})
    IN (\A m \in (j + 1)..(k - 1) : depth(m) >= 0) /\ depth(k - 1) = 0

\* j and k are the two ends of one bracket pair
BracketPair(str, j, k) ==
    /\ j < k
    /\ \/ str[j] = 40 /\ str[k] = 41 /\ Balanced(str, j, k, 40, 41)
       \/ str[j] = 91 /\ str[k] = 93 /\ Balanced(str, j, k, 91, 93)

\* C16: no returned gloss consists of text that lay inside a round-bracket
\* or square-bracket pair of the translation, nested pairs included.
C16_NoBracketedGloss ==
    gpc = "extracted" =>
        \A n \in 1..Len(wordSrc) :
            ~\E j, k \in 1..Len(translation) :
                /\ BracketPair(translation, j, k)
                /\ \A i \in 1..Len(wordSrc[n]) : j < wordSrc[n][i] /\ wordSrc[n][i] < k

(***************************************************************************)
(* Claims about the reverse index build                                    *)
(***************************************************************************)
\* the lines of a string
SplitLines(str) ==
    LET nl == Ascending({i \in 1..Len(str) : str[i] = 10})
    IN [n \in 1..(Len(nl) + 1) |->
           SubSeq(str, IF n = 1 THEN 1 ELSE nl[n - 1] + 1,
                       IF n = Len(nl) + 1 THEN Len(str) ELSE nl[n] - 1)]

\* the place of the opening bracket of a segment word（text）
SegmentBracket(seg) ==
    CHOOSE i \in 1..Len(seg) : seg[i] = 65288 /\ \A j \in 1..(i - 1) : seg[j] # 65288

SegmentWord(seg) == SubSeq(seg, 1, SegmentBracket(seg) - 1)

SegmentText(seg) == SubSeq(seg, SegmentBracket(seg) + 1, Len(seg) - 1)

\* the source words of a row's englishEntries, in order
RowWords(row) ==
    LET segs == SplitLines(row.english_words)
    IN [n \in 1..Len(segs) |-> SegmentWord(segs[n])]

\* the corpus records: the data rows with at least 13 fields
CorpusRecords == SelectSeq(corpus, LAMBDA r : r.fields >= 13)

\* the corpus records the reverse build reads: those with a translation
TranslatedRecords == SelectSeq(CorpusRecords, LAMBDA r : r.translation # <<>>)

\* the record's translation yields the gloss g
Yields(r, g) ==
    \E n \in 1..Len(extractChineseWords(r.translation)) :
        extractChineseWords(r.translation)[n].text = g

\* the first record of recs with the word w
FirstWith(recs, w) == CHOOSE i \in 1..Len(recs) :
    recs[i].word = w /\ \A j \in 1..(i - 1) : recs[j].word # w

\* the first record of recs in which the word w yields the gloss g
FirstYielding(recs, w, g) == CHOOSE i \in 1..Len(recs) :
    /\ recs[i].word = w /\ Yields(recs[i], g)
    /\ \A j \in 1..(i - 1) : ~(recs[j].word = w /\ Yields(recs[j], g))

\* the rank of w: that of its first record among recs
RankIn(recs, w) == parseBNC(recs[FirstWith(recs, w)].bnc)

\* the words of every inserted row are in ascending order of their rank in recs
RowsAscending(recs) ==
    \A n \in 1..Len(txRows) :
        LET ws == RowWords(txRows[n])
        IN \A i, j \in 1..Len(ws) :
            i < j => /\ RankIn(recs, ws[i]) <= RankIn(recs, ws[j])
                     /\ (RankIn(recs, ws[i]) # RankIn(recs, ws[j])
                            => RankIn(recs, ws[i]) < RankIn(recs, ws[j]))

\* C11 as stated: in every gloss row the segments are in ascending order of
\* rank, strictly for distinct ranks, a word's rank being that of the first
\* corpus record of the word.
C11_AscendingByCorpusRank == RowsAscending(CorpusRecords)

\* C11 amended: in every gloss row the segments are in ascending order of
\* rank, strictly for distinct ranks, a word's rank being that of the first
\* corpus record of the word that has a non-empty translation.
C11_AscendingByRank == RowsAscending(TranslatedRecords)

\* A row with two words of distinct valid ranks, one of which has another
\* rank in a later record.
C11_Witness ==
    /\ rpc = "insert"
    /\ \E n \in 1..Len(txRows) :
        LET ws == RowWords(txRows[n])
        IN /\ Len(ws) = 2
           /\ RankIn(TranslatedRecords, ws[1]) < RankIn(TranslatedRecords, ws[2])
           /\ RankIn(TranslatedRecords, ws[2]) < UnrankedBNC
           /\ \E i \in 1..Len(TranslatedRecords) :
                /\ TranslatedRecords[i].word = ws[1]
                /\ parseBNC(TranslatedRecords[i].bnc) > RankIn(TranslatedRecords, ws[2])

\* C12: in every gloss row, words of equal rank stand in the order in which
\* the corpus first showed them with that gloss (so that two builds of one
\* corpus write the same englishEntries).
C12_TiesInCorpusOrder ==
    \A n \in 1..Len(txRows) :
        LET ws == RowWords(txRows[n])
            g == txRows[n].chinese
        IN \A i, j \in 1..Len(ws) :
            (i < j /\ RankIn(TranslatedRecords, ws[i]) = RankIn(TranslatedRecords, ws[j]))
                => FirstYielding(TranslatedRecords, ws[i], g)
                       < FirstYielding(TranslatedRecords, ws[j], g)

CorpusGlosses == {g \in UNION {{extractChineseWords(TranslatedRecords[i].translation)[n].text :
                                   n \in 1..Len(extractChineseWords(TranslatedRecords[i].translation))} :
                               i \in 1..Len(TranslatedRecords)} : TRUE}

\* C14: when the build has returned without error, the table holds exactly
\* one row for each gloss of the corpus and no other row, and each row has
\* one segment for every source word that yielded its gloss.
C14_OneRowPerGloss ==
    rret = "nil" =>
        /\ Keys(glossRows) = CorpusGlosses
        /\ Len(glossRows) = Cardinality(CorpusGlosses)
        /\ \A n \in 1..Len(glossRows) :
            LET ws == RowWords(glossRows[n])
            IN /\ Range(ws) = {TranslatedRecords[i].word : i \in
                                  {k \in 1..Len(TranslatedRecords) :
                                      Yields(TranslatedRecords[k], glossRows[n].chinese)}}
               /\ NoDup(ws)

\* the places of the rows this build has committed: the row an earlier
\* build left names a source word that is not in the corpus
BuildRows == {n \in 1..Len(glossRows) : glossRows[n] # StaleRow}

\* C23: the gloss rows of a build are committed all together: at every
\* moment the table holds, from this build, either no row or one row for
\* every gloss of the corpus; after a failed Prepare it holds none.
C23_AllOrNothing ==
    /\ Cardinality(BuildRows) \in {0, Cardinality(CorpusGlosses)}
    /\ rret = "prepare failed" => BuildRows = {}

(***************************************************************************)
(* Claims about the forward index build                                    *)
(***************************************************************************)
\* how often v occurs in the sequence rows
Copy(rows, v) == Cardinality({i \in 1..Len(rows) : rows[i] = v})

\* the ForwardEntry of every data row with at least 13 fields
IngestedEntries ==
    LET ing == SelectSeq(csvRows, LAMBDA r : Len(r) >= 13)
    IN [i \in 1..Len(ing) |-> WordRow(ing[i])]

\* C17: when CreateEnglishDB has returned without error, the table holds
\* every ingested record exactly once, with its five columns unchanged: no
\* record and no batch is missing and none is there twice.
C17_EveryRecordPersisted ==
    fret = "nil" =>
        \A v \in Range(wordRows) \cup Range(IngestedEntries) :
            Copy(wordRows, v) = Copy(IngestedEntries, v)

\* C20: at most one worker has a transaction open; a worker with an open
\* transaction holds the write lock, and a worker holds the lock only
\* between Lock and the Unlock after Commit, Rollback or a failed Begin.
C20_OneWriter ==
    /\ Cardinality({w \in Workers : openTx[w]}) <= 1
    /\ \A w \in Workers : openTx[w] => dbMutex = w
    /\ \A w \in Workers : dbMutex = w => wpc[w] \in {"begin", "prepare", "exec", "commit"}
    /\ \A w \in Workers : openTx[w] <=> wpc[w] \in {"prepare", "exec", "commit"}

\* One worker has inserted its batch and not yet committed while another
\* one, holding a batch, waits for the lock.
C20_Witness ==
    \E w1, w2 \in Workers :
        /\ w1 # w2
        /\ openTx[w1] /\ wpc[w1] = "commit" /\ txWords[w1] # <<>>
        /\ wpc[w2] = "lock" /\ batch[w2] # <<>>

\* C21: the shared counter never decreases; whenever no worker stands
\* between its Commit and its update of the counter, and so at the end of
\* the build, the counter is the number of rows this build has committed
\* to the word index.
C21_CounterIsCommitted ==
    /\ [][totalCount' >= totalCount]_vars
    /\ []((\A w \in Workers : wpc[w] # "count") => totalCount = Len(wordRows))

\* the rows of the records of batch b from place i on, without the places in f
RECURSIVE RowsWithout(_, _, _)
RowsWithout(b, f, i) ==
    IF i > Len(b) THEN <<>>
    ELSE (IF i \in f THEN <<>> ELSE <<WordRow(b[i])>>) \o RowsWithout(b, f, i + 1)

\* C22: a worker leaves its insert loop with exactly the records whose
\* insert did not fail in its transaction, in batch order, and with
\* batchCount their number; the transaction is still open and goes to
\* Commit, which writes these rows and no others; the build reports no error.
C22_FailedInsertSkipped ==
    [][ /\ \A w \in Workers :
            /\ (wpc[w] = "exec" /\ wpc'[w] # "exec") =>
                  /\ wpc'[w] = "commit"
                  /\ openTx'[w]
                  /\ txWords'[w] = RowsWithout(batch[w], failedAt'[w], 1)
                  /\ batchCount'[w] = Len(batch[w]) - Cardinality(failedAt'[w])
            /\ (wpc[w] = "commit" /\ wpc'[w] # "commit") =>
                  /\ wpc'[w] = "count"
                  /\ wordRows' \in {wordRows, wordRows \o txWords[w]}
            /\ (wpc[w] = "count" /\ wpc'[w] # "count") =>
                  totalCount' = totalCount + Len(batch[w]) - Cardinality(failedAt[w])
        /\ fret' \in {"", "nil"} ]_vars

\* A worker has committed a batch of two records of which the first one's
\* insert failed: the second one's row is the last of the table.
C22_Witness ==
    \E w \in Workers :
        /\ wpc[w] = "count"
        /\ Len(batch[w]) = 2
        /\ failedAt[w] = {1}
        /\ wordRows # <<>>
        /\ wordRows[Len(wordRows)] = WordRow(batch[w][2])

\* C25: the forward build terminates: whatever the number of records, the
\* producer has eventually handed over every batch and closed the channel,
\* every worker has left its receive loop with the channel empty, and
\* wg.Wait() has returned.
C25_BuildTerminates ==
    <>(/\ ppc = "returned"
       /\ sendAt >= Len(records)
       /\ closed
       /\ recordChan = <<>>
       /\ \A w \in Workers : wpc[w] = "done" /\ ~openTx[w]
       /\ dbMutex = 0)

\* The build of a corpus of three records, one batch of two and one of one,
\* has returned.
C25_Witness ==
    /\ ppc = "returned"
    /\ Len(records) = batchSize + 1
    /\ \A w \in Workers : wpc[w] = "done"

(***************************************************************************)
(* Claims about RunConverter                                               *)
(***************************************************************************)
\* RunConverter has returned an error
BuildFailed == cret # <<>> /\ cret # <<"nil">>

\* C18: when the creation of a table or an index fails, the build step
\* returns the error before it has inserted a record; when the first step
\* fails, the second one is not run; and after a failed build the program
\* does not find two store files that it would take for a finished index.
C18_FailureIsFatal ==
    /\ \A d \in Steps : cret \in {<<d, "table">>, <<d, "index">>} => d \notin inserted
    /\ (BuildFailed /\ cret[1] = "english") => "chinese" \notin started
    /\ BuildFailed => ~(store["english"].file /\ store["chinese"].file)

\* C28: when RunConverter has returned without error, the word table holds
\* one row for each record of the corpus, neither fewer nor a second copy,
\* whether or not a word store was there when the build began.
C28_BuiltOnce == cret = <<"nil">> => store["english"].rows = nrec

(***************************************************************************)
(* Claims about the user interface                                         *)
(***************************************************************************)
\* C19: a click on a list item puts the clicked word at the front of the
\* search history, whichever list is shown; a move of the selection with
\* the arrow keys leaves the history as it is.
C19_ClickAddsToHistory ==
    [][ /\ lastEvent' = "click" => (Hist' # <<>> /\ Hist'[1] = lastText')
        /\ lastEvent' = "move" => Hist' = Hist ]_vars

\* the texts of the items on display
Shown == [i \in 1..Len(wordList) |-> wordList[i].text]

\* C24: nothing orders overlapping searches: a goroutine's store writes its
\* results to searchResults and its queued update puts them on display
\* whatever the input is by then, so what is stored and shown is what
\* completed last, not what was asked last.
C24_NoOrderingGuard ==
    [][ /\ \A t \in tasks :
            (t.at = "have" /\ t \notin tasks' /\ [t EXCEPT !.at = "stored"] \in tasks') =>
                searchResults' = t.results
        /\ (uiQueue # <<>> /\ uiQueue' = Tail(uiQueue) /\ Head(uiQueue).kind # "timer") =>
                Shown' = Head(uiQueue).results ]_vars

\* The user typed "a" and then "b"; both searches have completed and their
\* updates have run, and the shared slice and the list hold the results for
\* "a" while the input is "b".
C24_Witness ==
    /\ searchInput = "b"
    /\ tasks = {}
    /\ uiQueue = <<>>
    /\ searchResults = SearchOutcome("a")
    /\ Shown = SearchOutcome("a")

\* C27: no item callback reads searchResults past its end.
C27_CallbackInBounds == ~crashed

====
